---------------------------- MODULE Spec2Model ----------------------------
(***************************************************************************)
(* A model of the lekh text editor core: Row (src/src/row.rs), Document    *)
(* (src/src/document.rs) and the highlight pass (src/src/highlight.rs).    *)
(*                                                                         *)
(* Text is a sequence of code points.  Each code point is a short string   *)
(* naming it; str::find works on char boundaries, so a byte offset of the  *)
(* source corresponds to a code point offset here.                         *)
(***************************************************************************)
EXTENDS Integers, Sequences, FiniteSets, TLC

(***************************************************************************)
(* Code points and bounds                                                  *)
(***************************************************************************)
LF == "LF"
CR == "CR"
TAB == "TAB"
ESC == "ESC"
\* U+0301 COMBINING ACUTE ACCENT, Grapheme_Cluster_Break = Extend
ACUTE == "ACUTE"

\* longest Row content (code points) built in the Row specification
MaxLen == 3
\* longest query (code points) handed to find
MaxQuery == 2

RowChars == {"a", ACUTE, TAB}
QueryChars == {"a", ACUTE}

Forward == "Forward"
Backward == "Backward"
SearchDirection == {Forward, Backward}

\* Option<T>: None is the empty tuple, Some(v) the one-element tuple
None == <<>>
Some(v) == <<v>>

Min(a, b) == IF a < b THEN a ELSE b

\* all sequences over S of length at most n
SeqUpTo(S, n) == UNION {[1..k -> S] : k \in 0..n}

(***************************************************************************)
(* Grapheme clusters (unicode_segmentation, graphemes(true)): the rules of *)
(* UAX #29 that apply to the code points above.                            *)
(***************************************************************************)
IsControl(c) == c \in {LF, CR, TAB, ESC}
IsExtend(c) == c = ACUTE

\* no boundary between prev and c: GB3 (CR x LF), GB9 (x Extend) unless
\* GB4 ((Control | CR | LF) %) applies first
Joins(prev, c) ==
    \/ prev = CR /\ c = LF
    \/ IsExtend(c) /\ ~IsControl(prev)

Boundary(s, i) == i = 1 \/ ~Joins(s[i - 1], s[i])

\* the grapheme clusters of s, in order, each a sequence of code points
Graphemes(s) ==
    LET F[i \in 0..Len(s)] ==
            IF i = 0 THEN <<>>
            ELSE IF Boundary(s, i) THEN Append(F[i - 1], <<s[i]>>)
            ELSE [F[i - 1] EXCEPT ![Len(F[i - 1])] = Append(@, s[i])]
    IN F[Len(s)]

GraphemeCount(s) == Len(Graphemes(s))

\* concatenation of a sequence of strings
Concat(gs) ==
    LET F[i \in 0..Len(gs)] == IF i = 0 THEN <<>> ELSE F[i - 1] \o gs[i]
    IN F[Len(gs)]

\* graphemes with 0-based index in [from, to)
Slice(gs, from, to) == SubSeq(gs, from + 1, Min(to, Len(gs)))

(***************************************************************************)
(* as_24_bit_terminal_escaped: the styled text of a line is a colour       *)
(* escape sequence followed by the text                                    *)
(***************************************************************************)
Escaped(s) == <<ESC, "[", "m">> \o s

(***************************************************************************)
(* Row                                                                     *)
(***************************************************************************)
RowDefault == [string |-> <<>>, highlighted |-> <<>>, len |-> 0]

RowFrom(st, hl) == [string |-> st, highlighted |-> hl, len |-> GraphemeCount(st)]

RowInsert(row, at, c) ==
    IF at >= row.len
    THEN [row EXCEPT !.string = Append(row.string, c), !.len = row.len + 1]
    ELSE LET gs == Graphemes(row.string)
             put == [i \in 1..Len(gs) |-> IF i - 1 = at THEN <<c>> \o gs[i] ELSE gs[i]]
         IN [row EXCEPT !.string = Concat(put),
                        !.len = Len(gs) + (IF at < Len(gs) THEN 1 ELSE 0)]

RowDelete(row, at) ==
    IF at >= row.len
    THEN row
    ELSE LET gs == Graphemes(row.string)
             keep == [i \in 1..Len(gs) |-> IF i - 1 # at THEN gs[i] ELSE <<>>]
         IN [row EXCEPT !.string = Concat(keep),
                        !.len = Len(gs) - (IF at < Len(gs) THEN 1 ELSE 0)]

\* RowAppend with the content of next_row left out
RowAppendDropsNext(row, next_row) ==
    [row EXCEPT !.len = row.len + next_row.len]

RowAppend(row, next_row) ==
    [row EXCEPT !.string = row.string \o next_row.string,
                !.len = row.len + next_row.len]

\* RowSplit with the test index <= at in place of index < at
RowSplitKeepsOneMore(row, at) ==
    LET gs == Graphemes(row.string)
        n == Min(at + 1, Len(gs))
    IN << [row EXCEPT !.string = Concat(SubSeq(gs, 1, n)), !.len = n],
          [string |-> Concat(SubSeq(gs, n + 1, Len(gs))),
           highlighted |-> row.highlighted,
           len |-> Len(gs) - n] >>

\* split returns the pair <<truncated self, returned Row>>
RowSplit(row, at) ==
    LET gs == Graphemes(row.string)
        n == Min(at, Len(gs))
    IN << [row EXCEPT !.string = Concat(SubSeq(gs, 1, n)), !.len = n],
          [string |-> Concat(SubSeq(gs, n + 1, Len(gs))),
           highlighted |-> row.highlighted,
           len |-> Len(gs) - n] >>

\* s has t at 0-based offset i
OccursAt(s, t, i) == i + Len(t) <= Len(s) /\ SubSeq(s, i + 1, i + Len(t)) = t

\* str::find / str::rfind: offset of the first / last occurrence
StrFind(s, t) ==
    LET hits == {i \in 0..Len(s) : OccursAt(s, t, i)}
    IN IF hits = {} THEN None ELSE Some(CHOOSE i \in hits : \A j \in hits : i <= j)

StrRFind(s, t) ==
    LET hits == {i \in 0..Len(s) : OccursAt(s, t, i)}
    IN IF hits = {} THEN None ELSE Some(CHOOSE i \in hits : \A j \in hits : i >= j)

\* grapheme_indices: 0-based offset of the start of each grapheme of s
GraphemeOffsets(s) ==
    LET gs == Graphemes(s)
    IN [i \in 1..Len(gs) |-> Len(Concat(SubSeq(gs, 1, i - 1)))]

RowFind(row, query, at, direction) ==
    IF at > row.len THEN None
    ELSE LET start == IF direction = Forward THEN at ELSE 0
             end == IF direction = Forward THEN row.len ELSE at
             gs == Graphemes(row.string)
             substring == Concat(SubSeq(gs, start + 1, Min(start + (end - start), Len(gs))))
             matching == IF direction = Forward THEN StrFind(substring, query)
                         ELSE StrRFind(substring, query)
             offs == GraphemeOffsets(substring)
         IN IF matching = None THEN None
            ELSE LET hit == {g \in 1..Len(offs) : offs[g] = matching[1]}
                 IN IF hit = {} THEN None
                    ELSE Some(start + (CHOOSE g \in hit : TRUE) - 1)

\* the space printed for a tab
SPACE == " "
\* what SetAttribute(Attribute::Reset) writes
ResetAttribute == <<ESC, "[", "0", "m">>

\* the for loop of Row::render without a search keyword, over the graphemes
\* of the styled text: flag, skip, chars and prev_esc_seq as in the source,
\* out the graphemes printed so far, broke after the break
RenderLoop(row, start, end) ==
    LET gs == Graphemes(row.highlighted)
        F[i \in 0..Len(gs)] ==
            IF i = 0
            THEN [flag |-> FALSE, skip |-> 0, chars |-> 0, prev_esc_seq |-> <<>>,
                  out |-> <<>>, broke |-> FALSE]
            ELSE LET st == F[i - 1]
                     grapheme == gs[i]
                     flag == st.flag \/ grapheme = <<ESC>>
                 IN IF st.broke THEN st
                    ELSE IF flag /\ grapheme = <<"m">>
                    THEN [st EXCEPT !.flag = FALSE,
                                    !.prev_esc_seq = Append(@, grapheme),
                                    !.out = Append(@, grapheme)]
                    ELSE IF ~flag
                    THEN IF st.skip = start
                         THEN IF st.chars < end - start
                              THEN [st EXCEPT !.out = Append(@, IF grapheme = <<TAB>>
                                                                THEN <<SPACE>>
                                                                ELSE grapheme),
                                              !.chars = @ + 1]
                              ELSE [st EXCEPT !.broke = TRUE]
                         ELSE [st EXCEPT !.skip = @ + 1]
                    ELSE [st EXCEPT !.flag = TRUE,
                                    !.prev_esc_seq = Append(@, grapheme),
                                    !.out = Append(@, grapheme)]
    IN F[Len(gs)]

\* Row::render(start, end, &None): what the loop prints, and what is printed
\* after it (the reset, the escape sequences met, the line end)
RowRender(row, start, end) ==
    LET end1 == Min(end, row.len)
        start1 == Min(start, end1)
        st == RenderLoop(row, start1, end1)
    IN [scan |-> st.out,
        tail |-> <<ResetAttribute>> \o st.prev_esc_seq \o << <<CR, LF>> >>]

(***************************************************************************)
(* Text files and the highlight pass                                       *)
(***************************************************************************)
\* syntect LinesWithEndings: the pieces of contents, each ending after a LF
\* (the last piece ends where contents ends)
LinesWithEndings(contents) ==
    LET F[i \in 0..Len(contents)] ==
            IF i = 0 THEN <<>>
            ELSE IF i = 1 \/ contents[i - 1] = LF THEN Append(F[i - 1], <<contents[i]>>)
            ELSE [F[i - 1] EXCEPT ![Len(F[i - 1])] = Append(@, contents[i])]
    IN F[Len(contents)]

DropLast(s) == SubSeq(s, 1, Len(s) - 1)

\* one line of str::lines: the terminating LF is removed, and a CR right
\* before that LF with it
StripLineEnding(piece) ==
    IF Len(piece) > 0 /\ piece[Len(piece)] = LF
    THEN LET t == DropLast(piece)
         IN IF Len(t) > 0 /\ t[Len(t)] = CR THEN DropLast(t) ELSE t
    ELSE piece

StrLines(contents) ==
    LET ps == LinesWithEndings(contents)
    IN [i \in 1..Len(ps) |-> StripLineEnding(ps[i])]

\* bytes of the UTF-8 encoding of a code point
Utf8Len(c) == IF c = ACUTE THEN 2 ELSE 1

\* highlight_contents: one Row per piece, built from the piece and its styled
\* text, each cut one byte before its end
HighlightContents(contents) ==
    LET ps == LinesWithEndings(contents)
    IN [i \in 1..Len(ps) |-> RowFrom(DropLast(ps[i]), DropLast(Escaped(ps[i])))]

\* the cut of highlight_contents panics when it falls inside a code point
HighlightContentsPanics(contents) ==
    LET ps == LinesWithEndings(contents)
    IN \E i \in 1..Len(ps) : Utf8Len(ps[i][Len(ps[i])]) > 1

(***************************************************************************)
(* Document                                                                *)
(***************************************************************************)
FileName == "f"

DocumentDefault ==
    [rows |-> <<>>, highlighted_rows |-> <<>>, file_name |-> None, dirty |-> FALSE]

DocumentOpen(contents) ==
    LET ls == StrLines(contents)
    IN [rows |-> [i \in 1..Len(ls) |-> RowFrom(ls[i], <<>>)],
        highlighted_rows |-> HighlightContents(contents),
        file_name |-> Some(FileName),
        dirty |-> FALSE]

\* Document::open panics in highlight_contents or in its assert_eq!
OpenPanics(contents) ==
    \/ HighlightContentsPanics(contents)
    \/ Len(HighlightContents(contents)) # Len(StrLines(contents))

\* the text handed to the highlighter: each row's text, then a LF
DocContents(doc) ==
    Concat([i \in 1..Len(doc.rows) |-> Append(doc.rows[i].string, LF)])

\* Document::highlight panics in highlight_contents or in its assert_eq!
HighlightPanics(doc) ==
    \/ HighlightContentsPanics(DocContents(doc))
    \/ Len(HighlightContents(DocContents(doc))) # Len(doc.rows)

\* Document::highlight; a panic leaves highlighted_rows as it was
Highlight(doc) ==
    [doc |-> IF HighlightPanics(doc) THEN doc
             ELSE [doc EXCEPT !.highlighted_rows = HighlightContents(DocContents(doc))],
     panic |-> HighlightPanics(doc)]

Returned(doc) == [doc |-> doc, panic |-> FALSE]

InsertAt(seq, i, e) == SubSeq(seq, 1, i - 1) \o <<e>> \o SubSeq(seq, i, Len(seq))
RemoveAt(seq, i) == SubSeq(seq, 1, i - 1) \o SubSeq(seq, i + 1, Len(seq))

\* DocInsertNewline with the dirty flag set after the early return of the
\* append case
DocInsertNewlineCleanAppend(doc, at) ==
    IF at.y > Len(doc.rows) THEN Returned(doc)
    ELSE IF at.y = Len(doc.rows)
    THEN Returned([doc EXCEPT !.rows = Append(doc.rows, RowDefault)])
    ELSE LET sp == RowSplit(doc.rows[at.y + 1], at.x)
             rows1 == [doc.rows EXCEPT ![at.y + 1] = sp[1]]
         IN Highlight([doc EXCEPT !.dirty = TRUE,
                                  !.rows = InsertAt(rows1, at.y + 2, sp[2])])

DocInsertNewline(doc, at) ==
    IF at.y > Len(doc.rows) THEN Returned(doc)
    ELSE IF at.y = Len(doc.rows)
    THEN Returned([doc EXCEPT !.dirty = TRUE, !.rows = Append(doc.rows, RowDefault)])
    ELSE LET sp == RowSplit(doc.rows[at.y + 1], at.x)
             rows1 == [doc.rows EXCEPT ![at.y + 1] = sp[1]]
         IN Highlight([doc EXCEPT !.dirty = TRUE,
                                  !.rows = InsertAt(rows1, at.y + 2, sp[2])])

\* DocInsert with the char left out of the Row appended at the end
DocInsertAppendsEmpty(doc, at, c) ==
    IF at.y > Len(doc.rows) THEN Returned(doc)
    ELSE IF at.y = Len(doc.rows)
    THEN Highlight([doc EXCEPT !.dirty = TRUE, !.rows = Append(doc.rows, RowDefault)])
    ELSE Highlight([doc EXCEPT !.dirty = TRUE,
                               !.rows[at.y + 1] = RowInsert(doc.rows[at.y + 1], at.x, c)])

\* DocInsert with the dirty flag set before the range check
DocInsertDirtyFirst(doc, at, c) ==
    IF at.y > Len(doc.rows) THEN Returned([doc EXCEPT !.dirty = TRUE])
    ELSE IF at.y = Len(doc.rows)
    THEN Highlight([doc EXCEPT !.dirty = TRUE,
                               !.rows = Append(doc.rows, RowInsert(RowDefault, 0, c))])
    ELSE Highlight([doc EXCEPT !.dirty = TRUE,
                               !.rows[at.y + 1] = RowInsert(doc.rows[at.y + 1], at.x, c)])

DocInsert(doc, at, c) ==
    IF at.y > Len(doc.rows) THEN Returned(doc)
    ELSE IF at.y = Len(doc.rows)
    THEN Highlight([doc EXCEPT !.dirty = TRUE,
                               !.rows = Append(doc.rows, RowInsert(RowDefault, 0, c))])
    ELSE Highlight([doc EXCEPT !.dirty = TRUE,
                               !.rows[at.y + 1] = RowInsert(doc.rows[at.y + 1], at.x, c)])

\* DocDelete with the dirty flag set in the join branch only
DocDeleteDirtyOnJoin(doc, at) ==
    LET len == Len(doc.rows)
    IN IF at.y >= len THEN Returned(doc)
       ELSE IF at.x = doc.rows[at.y + 1].len /\ at.y < len - 1
       THEN LET next_row == doc.rows[at.y + 2]
                rows1 == RemoveAt(doc.rows, at.y + 2)
            IN Highlight([doc EXCEPT !.dirty = TRUE,
                                     !.rows = [rows1 EXCEPT ![at.y + 1] =
                                                  RowAppend(rows1[at.y + 1], next_row)]])
       ELSE Highlight([doc EXCEPT !.rows[at.y + 1] = RowDelete(doc.rows[at.y + 1], at.x)])

DocDelete(doc, at) ==
    LET len == Len(doc.rows)
    IN IF at.y >= len THEN Returned(doc)
       ELSE IF at.x = doc.rows[at.y + 1].len /\ at.y < len - 1
       THEN LET next_row == doc.rows[at.y + 2]
                rows1 == RemoveAt(doc.rows, at.y + 2)
            IN Highlight([doc EXCEPT !.dirty = TRUE,
                                     !.rows = [rows1 EXCEPT ![at.y + 1] =
                                                  RowAppend(rows1[at.y + 1], next_row)]])
       ELSE Highlight([doc EXCEPT !.dirty = TRUE,
                                  !.rows[at.y + 1] = RowDelete(doc.rows[at.y + 1], at.x)])

\* SaveBytes with the LF written between rows instead of after each row
SaveBytesJoined(doc) ==
    Concat([i \in 1..Len(doc.rows) |->
               IF i = 1 THEN doc.rows[i].string ELSE <<LF>> \o doc.rows[i].string])

\* the bytes save writes: each row's bytes, then a LF
SaveBytes(doc) ==
    Concat([i \in 1..Len(doc.rows) |-> doc.rows[i].string \o <<LF>>])

\* DocSave without the reset of the dirty flag
DocSaveKeepsDirty(doc, file) ==
    IF doc.file_name # None
    THEN << doc, Some(SaveBytes(doc)) >>
    ELSE << doc, file >>

\* DocSave with the file written also when no file name is set
DocSaveWritesUnnamed(doc, file) ==
    IF doc.file_name # None
    THEN << [doc EXCEPT !.dirty = FALSE], Some(SaveBytes(doc)) >>
    ELSE << doc, Some(SaveBytes(doc)) >>

\* Document::save when every write succeeds: <<document after, file after>>
DocSave(doc, file) ==
    IF doc.file_name # None
    THEN << [doc EXCEPT !.dirty = FALSE], Some(SaveBytes(doc)) >>
    ELSE << doc, file >>

\* the file after File::create succeeded and the rows before k were written
PartialFile(doc, k) ==
    Some(Concat([i \in 1..(k - 1) |-> Append(doc.rows[i].string, LF)]))

RECURSIVE FindLoop(_, _, _, _, _)
\* the for loop of Document::find with n iterations left
FindLoop(rows, query, position, direction, n) ==
    IF n = 0 THEN None
    ELSE IF position.y < Len(rows)
    THEN LET found == RowFind(rows[position.y + 1], query, position.x, direction)
         IN IF found # None THEN Some([x |-> found[1], y |-> position.y])
            ELSE IF direction = Forward
            THEN FindLoop(rows, query, [x |-> 0, y |-> position.y + 1], direction, n - 1)
            ELSE LET y1 == IF position.y = 0 THEN 0 ELSE position.y - 1
                 IN FindLoop(rows, query, [x |-> rows[y1 + 1].len, y |-> y1],
                             direction, n - 1)
    ELSE None

DocFind(doc, query, at, direction) ==
    IF at.y >= Len(doc.rows) THEN None
    ELSE FindLoop(doc.rows, query, [x |-> at.x, y |-> at.y], direction,
                  IF direction = Forward THEN Len(doc.rows) - at.y ELSE at.y + 1)

(***************************************************************************)
(* State.                                                                  *)
(*   line, spare, lastR: one Row under test, the Row returned by the last  *)
(*     split while the caller still holds it, a record of the last call;   *)
(*   document: the Document; disk: the file at FileName (None = no file);  *)
(*   saved: the line contents at the last load or written save;            *)
(*   last: a record of the last Document call; crashed: the process has    *)
(*     panicked;                                                           *)
(*   cursor_position, offset, should_quit: the fields of Editor;           *)
(*   prompting: the Editor::prompt call in progress ("none" outside one);  *)
(*   result: the text typed into that prompt; searching: the locals of     *)
(*     Editor::search that its callback captures.                          *)
(***************************************************************************)
VARIABLES line, spare, lastR, document, disk, saved, last, crashed,
          cursor_position, offset, should_quit, prompting, result, searching

rvars == <<line, spare, lastR>>
dvars == <<document, disk, saved, last, crashed>>
evars == <<cursor_position, offset, should_quit, prompting, result, searching>>
vars == <<line, spare, lastR, document, disk, saved, last, crashed,
          cursor_position, offset, should_quit, prompting, result, searching>>

\* longest file content (code points) read by open in the file specification
MaxFile == 3
\* longest file content (code points) read by open before editing
MaxOpen == 2
\* most code points held by a Document that insert still adds to
MaxDocChars == 2
\* most rows of a Document that insert and insert_newline still add to
MaxRows == 2
\* last row whose write fails in a failed save while editing
MaxFailRow == 1
\* longest file content (code points) of the documents searched
MaxFindFile == 3

FileChars == {"a", ACUTE, CR, LF}
OpenChars == {"a", LF}
DocChars == {"a", ACUTE, LF}
FindFileChars == {"a", ACUTE, LF}

Positions(maxx, maxy) == {[x |-> x, y |-> y] : x \in 0..maxx, y \in 0..maxy}

RowContents(doc) == [i \in 1..Len(doc.rows) |-> doc.rows[i].string]
DocChars0(doc) == Len(Concat(RowContents(doc)))

RowIdle ==
    /\ line = RowDefault
    /\ spare = None
    /\ lastR = [op |-> "default"]

Origin == [x |-> 0, y |-> 0]

NoSearch == [old_position |-> Origin, direction |-> Forward, found |-> FALSE]

EditorIdle ==
    /\ cursor_position = Origin
    /\ offset = Origin
    /\ should_quit = FALSE
    /\ prompting = "none"
    /\ result = <<>>
    /\ searching = NoSearch

DocIdle ==
    /\ document = DocumentDefault
    /\ disk = None
    /\ saved = <<>>
    /\ last = [op |-> "default"]
    /\ crashed = FALSE

(***************************************************************************)
(* Row calls                                                               *)
(***************************************************************************)
RowInit ==
    /\ EditorIdle
    /\ line \in {RowFrom(s, Escaped(s)) : s \in SeqUpTo(RowChars, MaxLen)}
    /\ spare = None
    /\ lastR = [op |-> "from"]
    /\ DocIdle

DoRowInsert(at, c) ==
    /\ Len(line.string) < MaxLen
    /\ line' = RowInsert(line, at, c)
    /\ spare' = None
    /\ lastR' = [op |-> "insert", at |-> at, c |-> c, pre |-> line]
    /\ UNCHANGED dvars
    /\ UNCHANGED evars

DoRowDelete(at) ==
    /\ line' = RowDelete(line, at)
    /\ spare' = None
    /\ lastR' = [op |-> "delete", at |-> at, pre |-> line]
    /\ UNCHANGED dvars
    /\ UNCHANGED evars

DoRowSplit(at) ==
    /\ line' = RowSplit(line, at)[1]
    /\ spare' = Some(RowSplit(line, at)[2])
    /\ lastR' = [op |-> "split", at |-> at, pre |-> line]
    /\ UNCHANGED dvars
    /\ UNCHANGED evars

\* append the Row returned by the split just made
DoRowAppend ==
    /\ spare # None
    /\ line' = RowAppend(line, spare[1])
    /\ spare' = None
    /\ lastR' = [op |-> "append", at |-> lastR.at, pre |-> lastR.pre,
                 truncated |-> line, returned |-> spare[1]]
    /\ UNCHANGED dvars
    /\ UNCHANGED evars

\* delete, right after an insert, of the slot the char was inserted at
DoRowDeleteInserted ==
    /\ lastR.op = "insert"
    /\ line' = RowDelete(line, Min(lastR.at, lastR.pre.len))
    /\ spare' = None
    /\ lastR' = [op |-> "insert_delete", at |-> lastR.at, c |-> lastR.c, pre |-> lastR.pre]
    /\ UNCHANGED dvars
    /\ UNCHANGED evars

DoRowFind(query, at, direction) ==
    /\ UNCHANGED line
    /\ spare' = None
    /\ lastR' = [op |-> "find", query |-> query, at |-> at, direction |-> direction,
                 pre |-> line, ret |-> RowFind(line, query, at, direction)]
    /\ UNCHANGED dvars
    /\ UNCHANGED evars

RowNext ==
    \/ \E at \in 0..MaxLen, c \in RowChars : DoRowInsert(at, c)
    \/ \E at \in 0..MaxLen : DoRowDelete(at)
    \/ \E at \in 0..MaxLen : DoRowSplit(at)
    \/ DoRowAppend
    \/ DoRowDeleteInserted
    \/ \E query \in SeqUpTo(QueryChars, MaxQuery), at \in 0..MaxLen,
          direction \in SearchDirection : DoRowFind(query, at, direction)

SpecRow == RowInit /\ [][RowNext]_vars

(***************************************************************************)
(* Document calls                                                          *)
(***************************************************************************)
\* Editor::default builds the Document once: Document::default(), or
\* Document::open when a file is named and can be read
Init ==
    /\ EditorIdle
    /\ RowIdle
    /\ crashed = FALSE
    /\ \/ /\ document = DocumentDefault
          /\ disk = None
          /\ saved = <<>>
          /\ last = [op |-> "default"]
       \/ \E contents \in SeqUpTo(OpenChars, MaxOpen) :
             /\ document = DocumentOpen(contents)
             /\ disk = Some(contents)
             /\ saved = StrLines(contents)
             /\ last = [op |-> "open", contents |-> contents]

\* open(FileName) when the file there holds contents
Open(contents) ==
    /\ ~crashed
    /\ disk' = Some(contents)
    /\ document' = DocumentOpen(contents)
    /\ saved' = StrLines(contents)
    /\ last' = [op |-> "open", contents |-> contents]
    /\ crashed' = OpenPanics(contents)
    /\ UNCHANGED rvars
    /\ UNCHANGED evars

SetFileName ==
    /\ ~crashed
    /\ document.file_name = None
    /\ document' = [document EXCEPT !.file_name = Some(FileName)]
    /\ last' = [op |-> "set_file_name"]
    /\ UNCHANGED <<disk, saved, crashed>>
    /\ UNCHANGED rvars
    /\ UNCHANGED evars

Insert(at, c) ==
    /\ ~crashed
    /\ DocChars0(document) < MaxDocChars
    /\ Len(document.rows) < MaxRows \/ at.y # Len(document.rows)
    /\ LET r == DocInsert(document, at, c)
       IN /\ document' = r.doc
          /\ crashed' = r.panic
    /\ last' = [op |-> "insert", at |-> at, c |-> c, pre |-> document]
    /\ UNCHANGED <<disk, saved>>
    /\ UNCHANGED rvars
    /\ UNCHANGED evars

InsertNewline(at) ==
    /\ ~crashed
    /\ Len(document.rows) < MaxRows \/ at.y > Len(document.rows)
    /\ LET r == DocInsertNewline(document, at)
       IN /\ document' = r.doc
          /\ crashed' = r.panic
    /\ last' = [op |-> "insert_newline", at |-> at, pre |-> document]
    /\ UNCHANGED <<disk, saved>>
    /\ UNCHANGED rvars
    /\ UNCHANGED evars

Delete(at) ==
    /\ ~crashed
    /\ LET r == DocDelete(document, at)
       IN /\ document' = r.doc
          /\ crashed' = r.panic
    /\ last' = [op |-> "delete", at |-> at, pre |-> document]
    /\ UNCHANGED <<disk, saved>>
    /\ UNCHANGED rvars
    /\ UNCHANGED evars

\* save() returns Ok: no file name, or the file was created and every write
\* succeeded
SaveOk ==
    /\ ~crashed
    /\ LET r == DocSave(document, disk)
       IN /\ document' = r[1]
          /\ disk' = r[2]
    /\ saved' = IF document.file_name # None THEN RowContents(document) ELSE saved
    /\ last' = [op |-> "save", ret |-> "Ok", pre |-> document, file |-> disk,
                after |-> last.op,
                opened |-> IF last.op = "open" THEN last.contents ELSE <<>>]
    /\ UNCHANGED crashed
    /\ UNCHANGED rvars
    /\ UNCHANGED evars

\* save() returns Err from File::create: the file is as it was
SaveCreateFails ==
    /\ ~crashed
    /\ document.file_name # None
    /\ last' = [op |-> "save", ret |-> "Err", pre |-> document]
    /\ UNCHANGED <<document, disk, saved, crashed>>
    /\ UNCHANGED rvars
    /\ UNCHANGED evars

\* SaveWriteFails with the dirty flag reset before the failing write
SaveWriteFailsClean(k) ==
    /\ ~crashed
    /\ document.file_name # None
    /\ k \in 1..Len(document.rows)
    /\ document' = [document EXCEPT !.dirty = FALSE]
    /\ disk' = PartialFile(document, k)
    /\ last' = [op |-> "save", ret |-> "Err", pre |-> document]
    /\ UNCHANGED <<saved, crashed>>
    /\ UNCHANGED rvars
    /\ UNCHANGED evars

\* save() returns Err from a write_all for row k: the file holds the rows
\* before k
SaveWriteFails(k) ==
    /\ ~crashed
    /\ document.file_name # None
    /\ k \in 1..Len(document.rows)
    /\ disk' = PartialFile(document, k)
    /\ last' = [op |-> "save", ret |-> "Err", pre |-> document]
    /\ UNCHANGED <<document, saved, crashed>>
    /\ UNCHANGED rvars
    /\ UNCHANGED evars

Next ==
    \/ SetFileName
    \/ \E at \in Positions(MaxDocChars, MaxRows + 1), c \in DocChars : Insert(at, c)
    \/ \E at \in Positions(MaxDocChars, MaxRows + 1) : InsertNewline(at)
    \/ \E at \in Positions(MaxDocChars, MaxRows + 1) : Delete(at)
    \/ SaveOk
    \/ SaveCreateFails
    \/ \E k \in 1..MaxFailRow : SaveWriteFails(k)

Spec == Init /\ [][Next]_vars

(***************************************************************************)
(* Loading and saving files without editing                                *)
(***************************************************************************)
FileNext ==
    \/ \E contents \in SeqUpTo(FileChars, MaxFile) : Open(contents)
    \/ SaveOk
    \/ SaveCreateFails
    \/ \E k \in 1..MaxFile : SaveWriteFails(k)

FileInit ==
    /\ EditorIdle
    /\ RowIdle
    /\ DocIdle

SpecFile == FileInit /\ [][FileNext]_vars

(***************************************************************************)
(* Searching a loaded Document                                             *)
(***************************************************************************)
FindInit ==
    /\ EditorIdle
    /\ RowIdle
    /\ \E contents \in SeqUpTo(FindFileChars, MaxFindFile) :
          /\ document = DocumentOpen(contents)
          /\ disk = Some(contents)
          /\ saved = StrLines(contents)
          /\ last = [op |-> "open", contents |-> contents]
          /\ crashed = OpenPanics(contents)

Find(query, at, direction) ==
    /\ ~crashed
    /\ last' = [op |-> "find", query |-> query, at |-> at, direction |-> direction,
                ret |-> DocFind(document, query, at, direction)]
    /\ UNCHANGED <<document, disk, saved, crashed>>
    /\ UNCHANGED rvars
    /\ UNCHANGED evars

FindNext ==
    \E query \in SeqUpTo(QueryChars, MaxQuery), at \in Positions(MaxFindFile, MaxFindFile),
       direction \in SearchDirection : Find(query, at, direction)

SpecFind == FindInit /\ [][FindNext]_vars

(***************************************************************************)
(* Editing a Document just loaded from a file of several lines             *)
(***************************************************************************)
\* longest file content (code points) read by open before these edits
MaxEditFile == 5
\* most edit calls made on the loaded Document
MaxEdits == 1
\* largest column of an edit position; the largest line is one more
MaxEditCol == 3

EditFileChars == {"a", ACUTE, LF}
EditChars == {"a", ACUTE}

EditInit ==
    /\ EditorIdle
    /\ RowIdle
    /\ \E contents \in SeqUpTo(EditFileChars, MaxEditFile) :
          /\ document = DocumentOpen(contents)
          /\ disk = Some(contents)
          /\ saved = StrLines(contents)
          /\ last = [op |-> "open", contents |-> contents, n |-> 0]
          /\ crashed = OpenPanics(contents)

EditInsert(at, c) ==
    /\ ~crashed
    /\ last.n < MaxEdits
    /\ LET r == DocInsert(document, at, c)
       IN /\ document' = r.doc
          /\ crashed' = r.panic
    /\ last' = [op |-> "insert", at |-> at, c |-> c, pre |-> document, n |-> last.n + 1]
    /\ UNCHANGED <<disk, saved>>
    /\ UNCHANGED rvars
    /\ UNCHANGED evars

EditInsertNewline(at) ==
    /\ ~crashed
    /\ last.n < MaxEdits
    /\ LET r == DocInsertNewline(document, at)
       IN /\ document' = r.doc
          /\ crashed' = r.panic
    /\ last' = [op |-> "insert_newline", at |-> at, pre |-> document, n |-> last.n + 1]
    /\ UNCHANGED <<disk, saved>>
    /\ UNCHANGED rvars
    /\ UNCHANGED evars

EditDelete(at) ==
    /\ ~crashed
    /\ last.n < MaxEdits
    /\ LET r == DocDelete(document, at)
       IN /\ document' = r.doc
          /\ crashed' = r.panic
    /\ last' = [op |-> "delete", at |-> at, pre |-> document, n |-> last.n + 1]
    /\ UNCHANGED <<disk, saved>>
    /\ UNCHANGED rvars
    /\ UNCHANGED evars

EditNext ==
    \/ \E at \in Positions(MaxEditCol, MaxEditCol + 1), c \in EditChars : EditInsert(at, c)
    \/ \E at \in Positions(MaxEditCol, MaxEditCol + 1) : EditInsertNewline(at)
    \/ \E at \in Positions(MaxEditCol, MaxEditCol + 1) : EditDelete(at)

SpecEdit == EditInit /\ [][EditNext]_vars

(***************************************************************************)
(* Rendering a Row built by the highlight pass                             *)
(***************************************************************************)
\* longest text (code points) of a rendered Row
MaxRenderLen == 3
\* largest start and end of a render window
MaxWindow == 4

RenderChars == {"a", "m", ACUTE, TAB}

\* the Rows of highlight_contents for a line styled in one range or in two
RenderInit ==
    /\ EditorIdle
    /\ \E s1 \in SeqUpTo(RenderChars, MaxRenderLen), s2 \in SeqUpTo(RenderChars, MaxRenderLen) :
          /\ Len(s1) + Len(s2) <= MaxRenderLen
          /\ s1 = <<>> => s2 = <<>>
          /\ line = RowFrom(s1 \o s2, Escaped(s1) \o (IF s2 = <<>> THEN <<>> ELSE Escaped(s2)))
    /\ spare = None
    /\ lastR = [op |-> "from"]
    /\ DocIdle

DoRowRender(start, end) ==
    /\ UNCHANGED line
    /\ spare' = None
    /\ lastR' = [op |-> "render", start |-> start, end |-> end,
                 ret |-> RowRender(line, start, end)]
    /\ UNCHANGED dvars
    /\ UNCHANGED evars

RenderNext ==
    \E start \in 0..MaxWindow, end \in 0..MaxWindow : DoRowRender(start, end)

SpecRender == RenderInit /\ [][RenderNext]_vars

(***************************************************************************)
(* insert_newline and then delete at the same position, on a Document      *)
(* loaded from a file and edited by at most one insert                     *)
(***************************************************************************)
\* longest file content (code points) read by open before the two calls
MaxTripFile == 3
\* largest column and line of the positions used
MaxTripCol == 3

TripFileChars == {"a", ACUTE, LF}
TripChars == {"a", ACUTE}

TripInit ==
    /\ EditorIdle
    /\ RowIdle
    /\ \E contents \in SeqUpTo(TripFileChars, MaxTripFile) :
          /\ document = DocumentOpen(contents)
          /\ disk = Some(contents)
          /\ saved = StrLines(contents)
          /\ last = [op |-> "open", contents |-> contents]
          /\ crashed = OpenPanics(contents)

TripInsert(at, c) ==
    /\ ~crashed
    /\ last.op = "open"
    /\ LET r == DocInsert(document, at, c)
       IN /\ document' = r.doc
          /\ crashed' = r.panic
    /\ last' = [op |-> "insert", at |-> at, c |-> c, pre |-> document]
    /\ UNCHANGED <<disk, saved>>
    /\ UNCHANGED rvars
    /\ UNCHANGED evars

TripInsertNewline(at) ==
    /\ ~crashed
    /\ last.op \in {"open", "insert"}
    /\ LET r == DocInsertNewline(document, at)
       IN /\ document' = r.doc
          /\ crashed' = r.panic
    /\ last' = [op |-> "insert_newline", at |-> at, pre |-> document]
    /\ UNCHANGED <<disk, saved>>
    /\ UNCHANGED rvars
    /\ UNCHANGED evars

\* delete at the position of the insert_newline just made; origin is the
\* Document before the insert_newline
TripDelete ==
    /\ ~crashed
    /\ last.op = "insert_newline"
    /\ LET r == DocDelete(document, last.at)
       IN /\ document' = r.doc
          /\ crashed' = r.panic
    /\ last' = [op |-> "newline_delete", at |-> last.at, pre |-> document,
                origin |-> last.pre]
    /\ UNCHANGED <<disk, saved>>
    /\ UNCHANGED rvars
    /\ UNCHANGED evars

TripNext ==
    \/ \E at \in Positions(MaxTripCol, MaxTripCol), c \in TripChars : TripInsert(at, c)
    \/ \E at \in Positions(MaxTripCol, MaxTripCol) : TripInsertNewline(at)
    \/ TripDelete

SpecTrip == TripInit /\ [][TripNext]_vars

(***************************************************************************)
(* Editor: the cursor and the keys handled by process_keypress             *)
(***************************************************************************)
TAB_SIZE == 4

\* terminal size: columns, and rows less the two bar lines
TermWidth == 2
TermHeight == 2

\* most code points of a Document that a Char key still adds to
MaxKeyChars == 3
\* most code points of a Document after a Tab key
MaxTabChars == 4
\* most rows of a Document that a Char key or Enter still adds to
MaxKeyRows == 2

KeyChars == {"a", ACUTE}
MoveKeys == {"Up", "Down", "Left", "Right", "PageUp", "PageDown", "Home", "End"}

\* self.document.row(y).len(), 0 when there is no such row
RowLenAt(doc, y) == IF y < Len(doc.rows) THEN doc.rows[y + 1].len ELSE 0

\* MoveCursor with Left at column 0 going to column 0 of the line above
MoveCursorLeftToStart(doc, pos, key) ==
    LET height == Len(doc.rows)
        width == RowLenAt(doc, pos.y)
        x == pos.x
        y == pos.y
        moved ==
            CASE key = "Up" -> [x |-> x, y |-> IF y > 0 THEN y - 1 ELSE 0]
              [] key = "Down" -> [x |-> x, y |-> IF y < height THEN y + 1 ELSE y]
              [] key = "Left" ->
                    IF x > 0 THEN [x |-> x - 1, y |-> y]
                    ELSE IF y > 0 THEN [x |-> 0, y |-> y - 1]
                    ELSE [x |-> x, y |-> y]
              [] key = "Right" ->
                    IF x < width THEN [x |-> x + 1, y |-> y]
                    ELSE IF y < height THEN [x |-> 0, y |-> y + 1]
                    ELSE [x |-> x, y |-> y]
              [] key = "PageUp" ->
                    [x |-> x, y |-> IF y > TermHeight THEN y - TermHeight ELSE 0]
              [] key = "PageDown" ->
                    [x |-> x, y |-> IF y + TermHeight < height THEN y + TermHeight
                                    ELSE height]
              [] key = "Home" -> [x |-> 0, y |-> y]
              [] key = "End" -> [x |-> width, y |-> y]
              [] OTHER -> [x |-> x, y |-> y]
    IN [x |-> Min(moved.x, RowLenAt(doc, moved.y)), y |-> moved.y]

\* Editor::move_cursor: the cursor position after key
MoveCursor(doc, pos, key) ==
    LET height == Len(doc.rows)
        width == RowLenAt(doc, pos.y)
        x == pos.x
        y == pos.y
        moved ==
            CASE key = "Up" -> [x |-> x, y |-> IF y > 0 THEN y - 1 ELSE 0]
              [] key = "Down" -> [x |-> x, y |-> IF y < height THEN y + 1 ELSE y]
              [] key = "Left" ->
                    IF x > 0 THEN [x |-> x - 1, y |-> y]
                    ELSE IF y > 0 THEN [x |-> RowLenAt(doc, y - 1), y |-> y - 1]
                    ELSE [x |-> x, y |-> y]
              [] key = "Right" ->
                    IF x < width THEN [x |-> x + 1, y |-> y]
                    ELSE IF y < height THEN [x |-> 0, y |-> y + 1]
                    ELSE [x |-> x, y |-> y]
              [] key = "PageUp" ->
                    [x |-> x, y |-> IF y > TermHeight THEN y - TermHeight ELSE 0]
              [] key = "PageDown" ->
                    [x |-> x, y |-> IF y + TermHeight < height THEN y + TermHeight
                                    ELSE height]
              [] key = "Home" -> [x |-> 0, y |-> y]
              [] key = "End" -> [x |-> width, y |-> y]
              [] OTHER -> [x |-> x, y |-> y]
    IN [x |-> Min(moved.x, RowLenAt(doc, moved.y)), y |-> moved.y]

\* x.saturating_sub(y)
SatSub(a, b) == IF a > b THEN a - b ELSE 0

\* Editor::scroll: the offset that keeps pos on the screen
Scroll(off, pos) ==
    [y |-> IF pos.y < off.y THEN pos.y
           ELSE IF pos.y >= off.y + TermHeight THEN SatSub(pos.y, TermHeight) + 1
           ELSE off.y,
     x |-> IF pos.x < off.x THEN pos.x
           ELSE IF pos.x >= off.x + TermWidth THEN SatSub(pos.x, TermWidth) + 1
           ELSE off.x]

RECURSIVE TabLoop(_, _, _)
\* the for loop of the Tab key with n iterations left: insert a space at the
\* cursor, then move Right
TabLoop(doc, pos, n) ==
    IF n = 0 THEN [doc |-> doc, pos |-> pos, panic |-> FALSE]
    ELSE LET r == DocInsert(doc, pos, SPACE)
         IN IF r.panic THEN [doc |-> r.doc, pos |-> pos, panic |-> TRUE]
            ELSE TabLoop(r.doc, MoveCursor(r.doc, pos, "Right"), n - 1)

\* process_keypress is reading a key in the main loop
AtKeypress == ~crashed /\ ~should_quit /\ prompting = "none"

\* the end of process_keypress: scroll; the prompt locals are not in use
AfterKey(pos) ==
    /\ offset' = Scroll(offset, pos)
    /\ UNCHANGED <<should_quit, prompting, result, searching>>
    /\ UNCHANGED <<disk, saved>>
    /\ UNCHANGED rvars

KeyRecord(key) == [op |-> "key", key |-> key, pre |-> document, cursor |-> cursor_position]

KeyChar(ch) ==
    /\ AtKeypress
    /\ DocChars0(document) < MaxKeyChars
    /\ Len(document.rows) < MaxKeyRows \/ cursor_position.y # Len(document.rows)
    /\ LET r == DocInsert(document, cursor_position, ch)
           pos == IF r.panic THEN cursor_position
                  ELSE MoveCursor(r.doc, cursor_position, "Right")
       IN /\ document' = r.doc
          /\ crashed' = r.panic
          /\ cursor_position' = pos
          /\ AfterKey(pos)
    /\ last' = [op |-> "key", key |-> "Char", c |-> ch, pre |-> document,
                 cursor |-> cursor_position]

KeyDelete ==
    /\ AtKeypress
    /\ LET r == DocDelete(document, cursor_position)
       IN /\ document' = r.doc
          /\ crashed' = r.panic
    /\ UNCHANGED cursor_position
    /\ AfterKey(cursor_position)
    /\ last' = KeyRecord("Delete")

KeyBackspace ==
    /\ AtKeypress
    /\ IF cursor_position.x > 0 \/ cursor_position.y > 0
       THEN LET pos == MoveCursor(document, cursor_position, "Left")
                r == DocDelete(document, pos)
            IN /\ document' = r.doc
               /\ crashed' = r.panic
               /\ cursor_position' = pos
               /\ AfterKey(pos)
       ELSE /\ UNCHANGED <<document, crashed, cursor_position>>
            /\ AfterKey(cursor_position)
    /\ last' = KeyRecord("Backspace")

KeyEnter ==
    /\ AtKeypress
    /\ Len(document.rows) < MaxKeyRows
    /\ LET r == DocInsertNewline(document, cursor_position)
           pos == IF r.panic THEN cursor_position
                  ELSE MoveCursor(r.doc, cursor_position, "Right")
       IN /\ document' = r.doc
          /\ crashed' = r.panic
          /\ cursor_position' = pos
          /\ AfterKey(pos)
    /\ last' = KeyRecord("Enter")

KeyTab ==
    /\ AtKeypress
    /\ DocChars0(document) + TAB_SIZE <= MaxTabChars
    /\ Len(document.rows) < MaxKeyRows \/ cursor_position.y # Len(document.rows)
    /\ LET r == TabLoop(document, cursor_position, TAB_SIZE)
       IN /\ document' = r.doc
          /\ crashed' = r.panic
          /\ cursor_position' = r.pos
          /\ AfterKey(r.pos)
    /\ last' = KeyRecord("Tab")

KeyMove(key) ==
    /\ AtKeypress
    /\ cursor_position' = MoveCursor(document, cursor_position, key)
    /\ UNCHANGED <<document, crashed>>
    /\ AfterKey(cursor_position')
    /\ last' = KeyRecord(key)

\* a key with no binding, or Ctrl with a char other than q, s, f
KeyIgnored ==
    /\ AtKeypress
    /\ UNCHANGED <<document, crashed, cursor_position>>
    /\ AfterKey(cursor_position)
    /\ last' = KeyRecord("Ignored")

KeysNext ==
    \/ \E ch \in KeyChars : KeyChar(ch)
    \/ KeyDelete
    \/ KeyBackspace
    \/ KeyEnter
    \/ KeyTab
    \/ \E key \in MoveKeys : KeyMove(key)
    \/ KeyIgnored

SpecKeys == Init /\ [][KeysNext]_vars

(***************************************************************************)
(* Editor: the interactive search (Ctrl-F) on a loaded Document            *)
(***************************************************************************)
\* longest file content (code points) read by open before a search
MaxSearchFile == 3
\* longest query (code points) typed into the search prompt
MaxSearchQuery == 2

SearchFileChars == {"a", ACUTE, LF}
SearchChars == {"a", ACUTE}
ArrowKeys == {"Up", "Down", "Left", "Right"}

SearchInit ==
    /\ EditorIdle
    /\ RowIdle
    /\ \E contents \in SeqUpTo(SearchFileChars, MaxSearchFile) :
          /\ document = DocumentOpen(contents)
          /\ disk = Some(contents)
          /\ saved = StrLines(contents)
          /\ last = [op |-> "open", contents |-> contents]
          /\ crashed = OpenPanics(contents)

\* Ctrl-F: Editor::search up to the first read of a key in prompt
StartSearch ==
    /\ AtKeypress
    /\ prompting' = "search"
    /\ result' = <<>>
    /\ searching' = [old_position |-> cursor_position, direction |-> Forward,
                     found |-> FALSE]
    /\ last' = [op |-> "searching", pre |-> document]
    /\ UNCHANGED <<cursor_position, offset, should_quit>>
    /\ UNCHANGED <<document, disk, saved, crashed>>
    /\ UNCHANGED rvars

\* the closure handed to prompt by Editor::search, called with key and the
\* query typed so far
SearchCallback(key, query) ==
    LET moved == key \in {"Right", "Down"}
        direction == IF key \in {"Left", "Up"} THEN Backward ELSE Forward
        pos == IF moved THEN MoveCursor(document, cursor_position, "Right")
               ELSE cursor_position
        position == DocFind(document, query, pos, direction)
    IN /\ searching' = [searching EXCEPT !.direction = direction,
                                         !.found = (position # None)]
       /\ IF position # None
          THEN /\ cursor_position' = position[1]
               /\ offset' = Scroll(offset, position[1])
          ELSE /\ cursor_position' = IF moved THEN MoveCursor(document, pos, "Left")
                                      ELSE pos
               /\ UNCHANGED offset

\* what a key of the search prompt leaves alone
InSearch ==
    /\ ~crashed
    /\ prompting = "search"
    /\ UNCHANGED <<should_quit, prompting>>
    /\ UNCHANGED dvars
    /\ UNCHANGED rvars

SearchChar(ch) ==
    /\ InSearch
    /\ Len(result) < MaxSearchQuery
    /\ result' = Append(result, ch)
    /\ SearchCallback("Char", result')

SearchBackspace ==
    /\ InSearch
    /\ result' = DropLast(result)
    /\ SearchCallback("Backspace", result')

SearchArrow(key) ==
    /\ InSearch
    /\ UNCHANGED result
    /\ SearchCallback(key, result)

\* a key prompt has no arm for, other than the arrows
SearchOtherKey ==
    /\ InSearch
    /\ UNCHANGED result
    /\ SearchCallback("Other", result)

SearchEnds == {"Enter", "Esc", "Ctrl"}

\* the key that ends prompt, the rest of Editor::search and the scroll at the
\* end of process_keypress
SearchEnd(how) ==
    /\ ~crashed
    /\ prompting = "search"
    /\ LET query == IF how = "Enter" /\ result # <<>> THEN Some(result) ELSE None
           restore == query = None \/ ~searching.found
           pos == IF restore THEN searching.old_position ELSE cursor_position
       IN /\ cursor_position' = pos
          /\ offset' = Scroll(IF restore THEN Scroll(offset, pos) ELSE offset, pos)
          /\ last' = [op |-> "search", how |-> how, query |-> query,
                      found |-> searching.found,
                      old_position |-> searching.old_position, pre |-> last.pre]
    /\ prompting' = "none"
    /\ result' = <<>>
    /\ searching' = NoSearch
    /\ UNCHANGED should_quit
    /\ UNCHANGED <<document, disk, saved, crashed>>
    /\ UNCHANGED rvars

SearchNext ==
    \/ \E key \in MoveKeys : KeyMove(key)
    \/ StartSearch
    \/ \E ch \in SearchChars : SearchChar(ch)
    \/ SearchBackspace
    \/ \E key \in ArrowKeys : SearchArrow(key)
    \/ SearchOtherKey
    \/ \E how \in SearchEnds : SearchEnd(how)

SpecSearch == SearchInit /\ [][SearchNext]_vars

(***************************************************************************)
(* Editor: quit (Ctrl-Q) and save (Ctrl-S) with their prompts               *)
(*   prompting = "quit": the "Save Modified Buffer? (Y or N): " prompt;    *)
(*   "save_as": the "Save as: " prompt of a Ctrl-S;                        *)
(*   "quit_save_as": the "Save as: " prompt of the save made by quit.      *)
(***************************************************************************)
\* longest text (code points) typed into a prompt of quit or save
MaxAnswer == 2

\* "f" stands for every char other than y, Y, n, N
AnswerChars == {"y", "Y", "n", "N", "f"}

\* QuitAnswer with a cancelled prompt taken as N
QuitAnswerCancelQuits(response) ==
    IF response = None THEN "quit"
    ELSE IF response[1] \in {<<"y">>, <<"Y">>} THEN "save"
    ELSE IF response[1] \in {<<"n">>, <<"N">>} THEN "quit"
    ELSE "again"

\* the match of Editor::quit on the response of its prompt
QuitAnswer(response) ==
    IF response = None THEN "cancel"
    ELSE IF response[1] \in {<<"y">>, <<"Y">>} THEN "save"
    ELSE IF response[1] \in {<<"n">>, <<"N">>} THEN "quit"
    ELSE "again"

\* the outcomes of Document::save with a file name set: Ok, Err from
\* File::create, Err from the write_all of row k
SaveOutcomes(doc, file) ==
    {[ok |-> TRUE, doc |-> DocSave(doc, file)[1], disk |-> DocSave(doc, file)[2]]}
    \cup {[ok |-> FALSE, doc |-> doc, disk |-> file]}
    \cup {[ok |-> FALSE, doc |-> doc, disk |-> PartialFile(doc, k)] :
            k \in 1..Len(doc.rows)}

\* the return of Editor::prompt when the key `how` ends it
PromptReturn(how) ==
    IF how = "Enter" /\ result # <<>> /\ ~should_quit THEN Some(result) ELSE None

\* the prompt returns to the main loop
PromptDone ==
    /\ prompting' = "none"
    /\ result' = <<>>
    /\ offset' = Scroll(offset, cursor_position)
    /\ UNCHANGED <<cursor_position, searching, crashed>>
    /\ UNCHANGED rvars

\* Editor::save from document.save() on, on the document doc; quitting: the
\* call was made by quit, which quits exactly when it returns Ok
SaveNamed(doc, quitting, how) ==
    \E o \in SaveOutcomes(doc, disk) :
        /\ document' = o.doc
        /\ disk' = o.disk
        /\ saved' = IF o.ok THEN RowContents(doc) ELSE saved
        /\ should_quit' = (quitting /\ o.ok)
        /\ last' = [op |-> IF quitting THEN "ctrl_q" ELSE "ctrl_s",
                    prompt |-> prompting, response |-> PromptReturn(how),
                    save |-> IF o.ok THEN "Ok" ELSE "Err", pre |-> document]
        /\ PromptDone

\* quit or save ends without a call of document.save()
NoSave(quitting, quit, how, save) ==
    /\ should_quit' = quit
    /\ last' = [op |-> IF quitting THEN "ctrl_q" ELSE "ctrl_s",
                prompt |-> prompting, response |-> PromptReturn(how),
                save |-> save, pre |-> document]
    /\ UNCHANGED <<document, disk, saved>>
    /\ PromptDone

\* a new prompt starts
OpenPrompt(which) ==
    /\ prompting' = which
    /\ result' = <<>>
    /\ UNCHANGED <<cursor_position, offset, should_quit, searching>>
    /\ UNCHANGED dvars
    /\ UNCHANGED rvars

\* Ctrl-Q
CtrlQ ==
    /\ AtKeypress
    /\ IF document.dirty THEN OpenPrompt("quit")
       ELSE NoSave(TRUE, TRUE, "none", "none")

\* Ctrl-S
CtrlS ==
    /\ AtKeypress
    /\ IF document.file_name = None THEN OpenPrompt("save_as")
       ELSE SaveNamed(document, FALSE, "none")

InPrompt ==
    /\ ~crashed
    /\ prompting \in {"quit", "save_as", "quit_save_as"}
    /\ UNCHANGED <<cursor_position, offset, should_quit, prompting, searching>>
    /\ UNCHANGED dvars
    /\ UNCHANGED rvars

\* a key that does not end the prompt: a char is pushed, Backspace pops
PromptKey(key) ==
    /\ InPrompt
    /\ IF key = "Backspace" THEN result' = DropLast(result)
       ELSE /\ Len(result) < MaxAnswer
            /\ result' = Append(result, key)

\* the key that ends a "Save as: " prompt, and the rest of Editor::save and
\* of its caller; every name typed is the one path of the model, FileName
SaveAsEnd(how) ==
    /\ ~crashed
    /\ prompting \in {"save_as", "quit_save_as"}
    /\ LET quitting == prompting = "quit_save_as"
       IN IF PromptReturn(how) = None
          THEN NoSave(quitting, FALSE, how, "aborted")
          ELSE SaveNamed([document EXCEPT !.file_name = Some(FileName)], quitting,
                         how)

\* the key that ends the prompt of quit, and the rest of Editor::quit up to
\* the next read of a key
QuitPromptEnd(how) ==
    /\ ~crashed
    /\ prompting = "quit"
    /\ LET answer == QuitAnswer(PromptReturn(how))
       IN CASE answer = "cancel" -> NoSave(TRUE, FALSE, how, "none")
            [] answer = "quit" -> NoSave(TRUE, TRUE, how, "none")
            [] answer = "save" ->
                 IF document.file_name = None THEN OpenPrompt("quit_save_as")
                 ELSE SaveNamed(document, TRUE, how)
            [] OTHER -> OpenPrompt("quit")

QuitNext ==
    \/ \E ch \in KeyChars : KeyChar(ch)
    \/ CtrlQ
    \/ CtrlS
    \/ \E key \in AnswerChars \cup {"Backspace"} : PromptKey(key)
    \/ \E how \in SearchEnds : SaveAsEnd(how)
    \/ \E how \in SearchEnds : QuitPromptEnd(how)

SpecQuit == Init /\ [][QuitNext]_vars

(***************************************************************************)
(* Properties                                                              *)
(***************************************************************************)
\* query is the concatenation of whole graphemes i .. i+k-1 of gs for some
\* k >= 0 with i + k <= limit (indices 0-based)
AlignedAt(gs, query, i, limit) ==
    \E k \in 0..(limit - i) : query = Concat(SubSeq(gs, i + 1, i + k))

PosLess(p, q) == p.y < q.y \/ (p.y = q.y /\ p.x < q.x)

EndsInLF(contents) == Len(contents) > 0 /\ contents[Len(contents)] = LF
HasCRLF(contents) ==
    \E i \in 1..(Len(contents) - 1) : contents[i] = CR /\ contents[i + 1] = LF

\* C1: after every Row insert and delete, the cached length of the Row is
\* the grapheme-cluster count of its content.
C1_LenIsGraphemeCount ==
    lastR.op \in {"insert", "delete"} => line.len = GraphemeCount(line.string)

\* C2 as claimed: dirty is true if and only if the line contents differ from
\* those at the last load or written save (the empty sequence for a buffer
\* created empty and never saved).
C2_DirtyIffDiffers ==
    ~crashed => (document.dirty <=> RowContents(document) # saved)

\* C2 as amended: whenever the line contents differ from those at the last
\* load or written save, dirty is true.
C2_DiffersImpliesDirty ==
    RowContents(document) # saved => document.dirty

C2_Witness ==
    /\ ~crashed
    /\ last.op = "insert_newline"
    /\ saved # <<>>
    /\ RowContents(last.pre) = saved
    /\ RowContents(document) # saved
    /\ document.dirty

\* C3: after insert or insert_newline at a line <= line count, or delete at
\* a line < line count, dirty is true whatever it was before.
C3_EditSetsDirty ==
    (\/ last.op \in {"insert", "insert_newline"} /\ last.at.y <= Len(last.pre.rows)
     \/ last.op = "delete" /\ last.at.y < Len(last.pre.rows))
    => document.dirty

C3_Witness ==
    /\ ~crashed
    /\ last.op = "delete"
    /\ last.at.y < Len(last.pre.rows)
    /\ ~last.pre.dirty
    /\ RowContents(document) = RowContents(last.pre)
    /\ document.dirty

\* C4 as claimed: a buffer just created empty or just loaded is not dirty,
\* and a buffer on which save has just returned success is not dirty,
\* whatever its file name state.
C4_FreshOrSavedIsClean ==
    /\ last.op \in {"default", "open"} => ~document.dirty
    /\ last.op = "save" /\ last.ret = "Ok" => ~document.dirty

\* C4 as amended: a buffer just created empty or just loaded is not dirty,
\* and a buffer with a file name on which save has just returned success is
\* not dirty.
C4_FreshOrNamedSavedIsClean ==
    /\ last.op \in {"default", "open"} => ~document.dirty
    /\ last.op = "save" /\ last.ret = "Ok" /\ last.pre.file_name # None
       => ~document.dirty

C4_Witness ==
    /\ last.op = "save"
    /\ last.ret = "Ok"
    /\ last.pre.file_name # None
    /\ last.pre.dirty
    /\ ~document.dirty

C6_SplitAppendInverse ==
    (lastR.op = "append" /\ lastR.at <= lastR.pre.len)
    => /\ line.string = lastR.pre.string
       /\ line.len = lastR.pre.len
       /\ lastR.truncated.len = lastR.at
       /\ lastR.returned.len = lastR.pre.len - lastR.at

\* the positions at or after from where query occurs as whole graphemes
ForwardOccurrences(rows, query, from) ==
    {p \in Positions(MaxFindFile, Len(rows) - 1) :
        /\ p.y >= from.y
        /\ p.y = from.y => p.x >= from.x
        /\ LET gs == Graphemes(rows[p.y + 1].string)
           IN p.x < Len(gs) /\ AlignedAt(gs, query, p.x, Len(gs))}

\* the positions where query occurs as whole graphemes and the whole match
\* lies before from
BackwardOccurrences(rows, query, from) ==
    {p \in Positions(MaxFindFile, Len(rows) - 1) :
        /\ p.y <= from.y
        /\ LET gs == Graphemes(rows[p.y + 1].string)
           IN /\ p.x < Len(gs)
              /\ AlignedAt(gs, query, p.x,
                           IF p.y = from.y THEN Min(from.x, Len(gs)) ELSE Len(gs))}

\* C7: a Forward find from a line < line count returns the smallest position
\* at or after from where query occurs in one line, none exactly when there
\* is no such position; from a line >= line count it returns none.  Stated
\* for the non-empty queries.
C7_ForwardFindsFirst ==
    (last.op = "find" /\ last.direction = Forward /\ last.query # <<>>)
    => LET occ == ForwardOccurrences(document.rows, last.query, last.at)
       IN IF last.at.y >= Len(document.rows) \/ occ = {}
          THEN last.ret = None
          ELSE last.ret = Some(CHOOSE p \in occ : \A q \in occ : p = q \/ PosLess(p, q))

\* C8: a Backward find from a line < line count and a column <= that line's
\* length returns the largest position where query occurs in one line with
\* the whole match before from, none exactly when there is no such position.
\* Stated for the non-empty queries.
C8_BackwardFindsLast ==
    (/\ last.op = "find" /\ last.direction = Backward /\ last.query # <<>>
     /\ last.at.y < Len(document.rows)
     /\ last.at.x <= document.rows[last.at.y + 1].len)
    => LET occ == BackwardOccurrences(document.rows, last.query, last.at)
       IN IF occ = {}
          THEN last.ret = None
          ELSE last.ret = Some(CHOOSE p \in occ : \A q \in occ : p = q \/ PosLess(q, p))

\* C9: whenever Row find returns index i, the query is the concatenation of
\* whole graphemes i .. i+k-1 of the Row for some k >= 0.
C9_MatchIsWholeGraphemes ==
    (lastR.op = "find" /\ lastR.ret # None)
    => LET gs == Graphemes(line.string)
       IN lastR.ret[1] <= Len(gs) /\ AlignedAt(gs, lastR.query, lastR.ret[1], Len(gs))

\* the grapheme indices of the window at which query occurs as whole
\* graphemes inside the window
WindowOccurrences(row, query, at, direction) ==
    LET gs == Graphemes(row.string)
        lo == IF direction = Forward THEN at ELSE 0
        hi == IF direction = Forward THEN Len(gs) ELSE Min(at, Len(gs))
    IN {i \in lo..(hi - 1) : AlignedAt(gs, query, i, hi)}

\* C10: for from <= length, if the query occurs as whole graphemes at an
\* index of the window, Row find returns the first such index (Forward) or
\* the last such index (Backward).  Stated for the non-empty queries.
C10_FindsAlignedOccurrence ==
    (lastR.op = "find" /\ lastR.at <= line.len /\ lastR.query # <<>>)
    => LET occ == WindowOccurrences(line, lastR.query, lastR.at, lastR.direction)
       IN occ # {} =>
            lastR.ret = Some(IF lastR.direction = Forward
                             THEN CHOOSE i \in occ : \A j \in occ : i <= j
                             ELSE CHOOSE i \in occ : \A j \in occ : i >= j)

\* C11: after every completed insert, insert_newline and delete, at any
\* position, the Document holds as many styled rows as lines.
C11_StyledRowPerLine ==
    (last.op \in {"insert", "insert_newline", "delete"} /\ ~crashed)
    => Len(document.highlighted_rows) = Len(document.rows)

\* C12: delete at a line before the last one and at the column equal to the
\* target line's length lowers the line count by one, makes the target line
\* the concatenation of itself and the next line, removes the next line and
\* leaves every other line as it was, in order; every other delete at a line
\* < line count keeps the line count and every line but the target.
C12_DeleteJoinsOrEditsTarget ==
    (last.op = "delete" /\ last.at.y < Len(last.pre.rows))
    => LET pre == last.pre.rows
           post == document.rows
           n == Len(pre)
           y == last.at.y + 1
       IN IF last.at.y < n - 1 /\ last.at.x = pre[y].len
          THEN /\ Len(post) = n - 1
               /\ post[y].string = pre[y].string \o pre[y + 1].string
               /\ \A i \in 1..(y - 1) : post[i] = pre[i]
               /\ \A i \in (y + 1)..(n - 1) : post[i] = pre[i + 1]
          ELSE /\ Len(post) = n
               /\ \A i \in 1..n : i # y => post[i] = pre[i]

C12_Witness ==
    /\ ~crashed
    /\ last.op = "delete"
    /\ Len(last.pre.rows) = 3
    /\ last.at.y = 1
    /\ \A i \in 1..3 : last.pre.rows[i].string # <<>>
    /\ Len(document.rows) = 2
    /\ document.rows[2].string = last.pre.rows[2].string \o last.pre.rows[3].string

\* C13: insert_newline at a line <= line count raises the line count by one.
\* At line = line count it appends an empty line.  At a line < line count
\* the target line keeps its first column graphemes, the remaining graphemes
\* form a new line right after it, the lines before are unchanged, the lines
\* after move down by one unchanged, and the concatenation of all line
\* contents is unchanged.
C13_NewlineSplitsTarget ==
    (last.op = "insert_newline" /\ last.at.y <= Len(last.pre.rows))
    => LET pre == last.pre.rows
           post == document.rows
           n == Len(pre)
           y == last.at.y + 1
       IN /\ Len(post) = n + 1
          /\ IF last.at.y = n
             THEN /\ post[n + 1].string = <<>>
                  /\ post[n + 1].len = 0
                  /\ \A i \in 1..n : post[i] = pre[i]
             ELSE LET gs == Graphemes(pre[y].string)
                      k == Min(last.at.x, Len(gs))
                  IN /\ post[y].string = Concat(SubSeq(gs, 1, k))
                     /\ post[y + 1].string = Concat(SubSeq(gs, k + 1, Len(gs)))
                     /\ \A i \in 1..(y - 1) : post[i] = pre[i]
                     /\ \A i \in (y + 1)..n : post[i + 1] = pre[i]
                     /\ Concat(RowContents(document)) = Concat(RowContents(last.pre))

C13_Witness ==
    /\ ~crashed
    /\ last.op = "insert_newline"
    /\ Len(last.pre.rows) = 2
    /\ last.at.y = 0
    /\ last.at.x = 1
    /\ GraphemeCount(last.pre.rows[1].string) = 2
    /\ Len(last.pre.rows[1].string) = 3
    /\ Len(document.rows) = 3
    /\ document.rows[3] = last.pre.rows[2]

\* C14: insert and insert_newline at a line > line count, and delete at a
\* line >= line count, leave the line sequence, the styled rows, the file
\* name and the dirty flag as they were, and raise no error.
C14_OutOfRangeIsNoOp ==
    (\/ last.op \in {"insert", "insert_newline"} /\ last.at.y > Len(last.pre.rows)
     \/ last.op = "delete" /\ last.at.y >= Len(last.pre.rows))
    => /\ ~crashed
       /\ document.rows = last.pre.rows
       /\ document.highlighted_rows = last.pre.highlighted_rows
       /\ document.file_name = last.pre.file_name
       /\ document.dirty = last.pre.dirty

C14_Witness ==
    /\ last.op = "insert"
    /\ Len(last.pre.rows) = 1
    /\ last.at.y = 2
    /\ ~last.pre.dirty
    /\ document = last.pre

\* C15: when save fails (the file cannot be created, or a write fails
\* part-way), the line sequence, the file name and the dirty flag are as
\* they were before the call; a dirty buffer is still dirty.
C15_FailedSaveKeepsState ==
    (last.op = "save" /\ last.ret = "Err")
    => /\ document.rows = last.pre.rows
       /\ document.file_name = last.pre.file_name
       /\ document.dirty = last.pre.dirty

C15_Witness ==
    /\ last.op = "save"
    /\ last.ret = "Err"
    /\ last.pre.dirty
    /\ document.dirty
    /\ Len(document.rows) = 2
    /\ disk = Some(<<>>)

\* C16: save on a buffer without a file name returns success, writes no
\* file and changes no buffer state; with a file name and no I/O error it
\* writes each line's content followed by one newline, in line order, and
\* leaves dirty false and the lines as they were.
C16_SaveWritesLinesOrNothing ==
    (last.op = "save" /\ last.ret = "Ok")
    => IF last.pre.file_name = None
       THEN /\ disk = last.file
            /\ document = last.pre
       ELSE /\ disk = Some(Concat([i \in 1..Len(last.pre.rows) |->
                                      last.pre.rows[i].string \o <<LF>>]))
            /\ ~document.dirty
            /\ document.rows = last.pre.rows

C16_Witness ==
    /\ last.op = "save"
    /\ last.ret = "Ok"
    /\ last.pre.file_name = None
    /\ last.pre.dirty
    /\ Len(last.pre.rows) = 2
    /\ document.dirty
    /\ disk = None

\* C17: every completed insert, insert_newline and delete either changes
\* the line sequence, sets dirty and leaves the styled rows regenerated from
\* the new line sequence, or changes no part of the buffer state.
C17_EditAppliesFullyOrNotAtAll ==
    (last.op \in {"insert", "insert_newline", "delete"} /\ ~crashed)
    => \/ /\ document.rows # last.pre.rows
          /\ document.dirty
          /\ document.highlighted_rows = HighlightContents(DocContents(document))
       \/ document = last.pre

\* the number of newlines of contents
CountLF(contents) == Cardinality({i \in 1..Len(contents) : contents[i] = LF})

\* the lines of a content that ends in a newline: the text before the first
\* newline, then the text between each newline and the next
TerminatedLines(contents) ==
    LET F[i \in 0..Len(contents)] ==
            IF i = 0 THEN << <<>> >>
            ELSE IF contents[i] = LF THEN Append(F[i - 1], <<>>)
            ELSE [F[i - 1] EXCEPT ![Len(F[i - 1])] = Append(@, contents[i])]
    IN DropLast(F[Len(contents)])

\* C18: a content of k newline-terminated lines loads as k lines; a content
\* that lacks the final newline loads as the lines of that content with the
\* newline added; open then save of a content that lacked the final newline
\* writes the content plus one newline.  Stated for the contents with no
\* carriage return directly before a newline.
C18_NoExtraTrailingLine ==
    /\ (last.op = "open" /\ ~HasCRLF(last.contents))
       => /\ ~crashed
          /\ IF last.contents = <<>> \/ EndsInLF(last.contents)
             THEN Len(document.rows) = CountLF(last.contents)
             ELSE RowContents(document) = TerminatedLines(last.contents \o <<LF>>)
    /\ (/\ last.op = "save" /\ last.ret = "Ok" /\ last.after = "open"
        /\ ~HasCRLF(last.opened)
        /\ last.opened # <<>> /\ ~EndsInLF(last.opened))
       => disk = Some(last.opened \o <<LF>>)

\* C19: after every insert, insert_newline and delete, every line of the
\* buffer has a cached length equal to the grapheme-cluster count of its
\* content, also the line merged by a join.
C19_EveryLineLenIsGraphemeCount ==
    last.op \in {"insert", "insert_newline", "delete"}
    => \A i \in 1..Len(document.rows) :
          document.rows[i].len = GraphemeCount(document.rows[i].string)

\* the code points of styled text s that lie in a style-control sequence:
\* from an escape character through the next 'm'
InControl(s) ==
    LET F[i \in 0..Len(s)] ==
            IF i = 0 THEN [open |-> FALSE, mask |-> <<>>]
            ELSE LET in == F[i - 1].open \/ s[i] = ESC
                 IN [open |-> in /\ s[i] # "m", mask |-> Append(F[i - 1].mask, in)]
    IN F[Len(s)].mask

\* what a scan of the styled text of row prints for the window [start, end):
\* the graphemes before the first visible grapheme at or past the window's
\* end, the control ones as they are, the visible ones of the window with a
\* tab as one space
WindowOutput(row, start, end) ==
    LET e == Min(end, row.len)
        b == Min(start, e)
        s == row.highlighted
        gs == Graphemes(s)
        offs == GraphemeOffsets(s)
        mask == InControl(s)
        ctl(i) == mask[offs[i] + 1]
        vidx(i) == Cardinality({j \in 1..(i - 1) : ~ctl(j)})
        past == {i \in 1..Len(gs) : ~ctl(i) /\ vidx(i) >= e}
        stop == IF past = {} THEN Len(gs) + 1 ELSE CHOOSE i \in past : \A j \in past : i <= j
        F[i \in 0..Len(gs)] ==
            IF i = 0 THEN <<>>
            ELSE IF i >= stop THEN F[i - 1]
            ELSE IF ctl(i) THEN Append(F[i - 1], gs[i])
            ELSE IF vidx(i) >= b
            THEN Append(F[i - 1], IF gs[i] = <<TAB>> THEN <<SPACE>> ELSE gs[i])
            ELSE F[i - 1]
    IN F[Len(gs)]

\* C20: render(start, end) prints exactly the visible graphemes of the styled
\* text whose visible index lies in [min(start, e), e), e = min(end, length),
\* in order and with a tab as one space; graphemes of style-control
\* sequences do not count towards start and end and each one met during the
\* scan is printed unchanged.
C20_RenderPrintsWindow ==
    lastR.op = "render" => lastR.ret.scan = WindowOutput(line, lastR.start, lastR.end)

\* C21: insert at a line < line count keeps the line count and every line
\* but the one at that line; insert at line = line count appends one line
\* whose content is the char alone and keeps every existing line.
C21_InsertChangesOneLine ==
    (last.op = "insert" /\ last.at.y <= Len(last.pre.rows))
    => LET pre == last.pre.rows
           post == document.rows
           n == Len(pre)
           y == last.at.y + 1
       IN IF last.at.y < n
          THEN /\ Len(post) = n
               /\ \A i \in 1..n : i # y => post[i] = pre[i]
          ELSE /\ Len(post) = n + 1
               /\ post[n + 1].string = <<last.c>>
               /\ \A i \in 1..n : post[i] = pre[i]

C21_Witness ==
    /\ ~crashed
    /\ last.op = "insert"
    /\ Len(last.pre.rows) = 2
    /\ last.at.y = 2
    /\ \A i \in 1..2 : last.pre.rows[i].string # <<>>
    /\ Len(document.rows) = 3
    /\ document.rows[3].string = <<ACUTE>>

\* C22: after any sequence of open, insert (of any char, a newline char
\* included), insert_newline and delete, no line's content holds a newline
\* char and the line-count assertion of the highlight pass has not failed.
C22_NoNewlineInsideLines ==
    /\ ~crashed
    /\ \A i \in 1..Len(document.rows) :
          \A j \in 1..Len(document.rows[i].string) : document.rows[i].string[j] # LF

\* C28: insert(at, ch) followed by delete(min(at, original length))
\* restores the content and the length of the Row, for every index and
\* every char, a combining one included.
C28_InsertDeleteInverse ==
    lastR.op = "insert_delete"
    => /\ line.string = lastR.pre.string
       /\ line.len = lastR.pre.len

\* the content and the cached length of every line of doc, in order
ContentsAndLengths(doc) ==
    [i \in 1..Len(doc.rows) |-> <<doc.rows[i].string, doc.rows[i].len>>]

\* C27: for a line < line count and a column <= that line's length,
\* insert_newline followed by delete at the same position restores the
\* contents and the lengths of all lines.
C27_NewlineDeleteInverse ==
    (/\ last.op = "newline_delete"
     /\ last.at.y < Len(last.origin.rows)
     /\ last.at.x <= last.origin.rows[last.at.y + 1].len)
    => ContentsAndLengths(document) = ContentsAndLengths(last.origin)

\* C23: after every keypress the cursor line is <= the line count and the
\* cursor column is <= the length of the cursor's line (0 at line = line
\* count).
C23_CursorInsideDocument ==
    (last.op = "key" /\ ~crashed)
    => /\ cursor_position.y <= Len(document.rows)
       /\ cursor_position.x <= RowLenAt(document, cursor_position.y)

\* C26: Backspace with the cursor at column 0 of line y, 0 < y < line count,
\* joins lines y-1 and y, lowers the line count by one and leaves the cursor
\* at (old length of line y-1, y-1); Backspace with the cursor at (0, 0)
\* changes neither the document nor the dirty flag nor the cursor.
C26_BackspaceJoinsAbove ==
    (last.op = "key" /\ last.key = "Backspace" /\ last.cursor.x = 0)
    => LET pre == last.pre.rows
           y == last.cursor.y
       IN /\ (0 < y /\ y < Len(pre))
             => /\ Len(document.rows) = Len(pre) - 1
                /\ document.rows[y].string = pre[y].string \o pre[y + 1].string
                /\ \A i \in 1..(y - 1) : document.rows[i] = pre[i]
                /\ cursor_position = [x |-> pre[y].len, y |-> y - 1]
          /\ y = 0
             => /\ document = last.pre
                /\ cursor_position = Origin

C26_Witness ==
    /\ ~crashed
    /\ last.op = "key"
    /\ last.key = "Backspace"
    /\ last.cursor = [x |-> 0, y |-> 1]
    /\ Len(last.pre.rows) = 2
    /\ last.pre.rows[1].len = 2
    /\ last.pre.rows[2].string # <<>>
    /\ Len(document.rows) = 1
    /\ cursor_position = [x |-> 2, y |-> 0]

\* C25: when a search ends cancelled (Esc, Ctrl+key, Enter on an empty
\* query) or with the last lookup having found nothing, the cursor is where
\* it was when the search started; otherwise the cursor is at the start of an
\* occurrence of the query; the document and its dirty flag are as before
\* the search.
C25_SearchEndsAtMatchOrStart ==
    (last.op = "search")
    => /\ document = last.pre
       /\ IF last.query = None \/ ~last.found
          THEN cursor_position = last.old_position
          ELSE /\ cursor_position.y < Len(document.rows)
               /\ LET gs == Graphemes(document.rows[cursor_position.y + 1].string)
                  IN /\ cursor_position.x <= Len(gs)
                     /\ AlignedAt(gs, last.query[1], cursor_position.x, Len(gs))

\* C24: whenever quit sets should_quit, the document is not dirty or the
\* user answered N to the save prompt; a cancelled prompt, an aborted
\* Save-as and a failed save leave should_quit false.
C24_QuitOnlySavedOrDeclined ==
    /\ should_quit
       => /\ last.op = "ctrl_q"
          /\ \/ ~document.dirty
             \/ /\ last.prompt = "quit"
                /\ last.response \in {Some(<<"n">>), Some(<<"N">>)}
    /\ (/\ last.op = "ctrl_q"
        /\ \/ last.prompt # "none" /\ last.response = None
           \/ last.save \in {"aborted", "Err"})
       => ~should_quit

C24_Witness ==
    /\ should_quit
    /\ last.op = "ctrl_q"
    /\ last.prompt = "quit_save_as"
    /\ last.response # None
    /\ last.save = "Ok"
    /\ last.pre.dirty
    /\ last.pre.file_name = None
    /\ ~document.dirty
    /\ disk = Some(SaveBytes(document))

=============================================================================
